---- MODULE Spec2Model ----
(***************************************************************************)
(* PolyMarketCopier: the copy-trading engine of modules/PolyClasses.py.    *)
(*                                                                         *)
(* PolyMarketController runs three asyncio tasks on one event loop:        *)
(*   wallet_loader   reloads wallets_to_copy from the wallets file,        *)
(*   trade_checker   polls the data API per wallet, records hashes in the  *)
(*                   sqlite store and appends new trades to trades_to_copy,*)
(*   trade_executor  turns each queued trade into an order.                *)
(* A task runs without interruption from one await to the next; `running`  *)
(* names the task that holds the event loop ("none": all are suspended).   *)
(*                                                                         *)
(* Encodings.  A trade dict is a record; a key the dict lacks has the      *)
(* value NoKey (strings) or Missing (numbers).  price is in hundredths     *)
(* (50 is 0.50), size in whole shares.                                     *)
(***************************************************************************)
EXTENDS Integers, Sequences, FiniteSets, TLC

\* ------------------------------------------------------------------ bounds
\* Store statements (execute / commit) that fail over one run.
MaxStoreFaults == 1
\* Longest trade list one data-API response carries in the model.
MaxRespLen == 2
\* Times the process is stopped and started again over the same trades.db.
MaxRestarts == 1

\* --------------------------------------------------------------- universes
Wallets == {"W1", "W2"}

NoKey == "<absent>"
Missing == -1

Trade(h, a, p, s, sd) ==
    [transactionHash |-> h, asset |-> a, price |-> p, size |-> s, side |-> sd]

\* Well-formed trades: 0.50 x 10 and 0.04 x 3.
TA == Trade("h1", "tokA", 50, 10, "BUY")
TB == Trade("h2", "tokB", 4, 3, "SELL")
\* Trades the feed may deliver with a field absent or degenerate.
TZeroPrice == Trade("h2", "tokA", 0, 10, "BUY")
TNoPrice == Trade("h1", "tokB", Missing, 3, "BUY")
TNoAsset == Trade("h2", NoKey, 50, 10, "SELL")
TNoHash == Trade(NoKey, "tokA", 50, 10, "BUY")

TradeDicts == {TA, TB, TZeroPrice, TNoPrice, TNoAsset, TNoHash}

Hashes == {t.transactionHash : t \in TradeDicts} \ {NoKey}

WellFormed(t) ==
    /\ t.transactionHash # NoKey
    /\ t.asset # NoKey
    /\ t.price > 0
    /\ t.size > 0
    /\ t.side # NoKey

\* The runs explored.  Each fixes the configuration, what the wallets file
\* can hold, which trades the data API serves, how many store statements
\* fail and whether calls of the trading API can fail.  Discovery never reads the order configuration, and the executor
\* never reads the store, so the two are varied one at a time:
\*   discovery runs   two wallets over a sound store, and one wallet over a
\*                    store whose statements can fail;
\*   execution runs   every order configuration, one wallet, trades of
\*                    every shape;
\*   lifecycle runs   one wallet, with a shutdown request and restarts of
\*                    the process over the same store;
\*   restart runs     one wallet and one hash, restarts over a store whose
\*                    statements can fail.
DiscoveryRuns ==
    {[order_type |-> "market", min_share_possible |-> FALSE,
      files |-> {<<"W1">>, <<"W1", "W2">>},
      feed |-> {TA, TB},
      store_faults |-> 0, api_faults |-> FALSE, shutdown |-> FALSE, restarts |-> 0],
     [order_type |-> "market", min_share_possible |-> FALSE,
      files |-> {<<"W1">>},
      feed |-> {TA, TB},
      store_faults |-> MaxStoreFaults, api_faults |-> FALSE, shutdown |-> FALSE,
      restarts |-> 0]}

ExecutionRuns ==
    {[order_type |-> ot, min_share_possible |-> ms,
      files |-> {<<"W1">>},
      feed |-> {TA, TB, TZeroPrice, TNoPrice, TNoAsset},
      store_faults |-> 0, api_faults |-> TRUE, shutdown |-> FALSE, restarts |-> 0] :
        ot \in {"limit", "market"}, ms \in BOOLEAN}

LifecycleRuns ==
    {[order_type |-> "limit", min_share_possible |-> TRUE,
      files |-> {<<"W1">>},
      feed |-> {TA, TZeroPrice},
      store_faults |-> 0, api_faults |-> TRUE, shutdown |-> TRUE,
      restarts |-> MaxRestarts]}

RestartRuns ==
    {[order_type |-> "market", min_share_possible |-> FALSE,
      files |-> {<<"W1">>},
      feed |-> {TA, TNoHash},
      store_faults |-> MaxStoreFaults, api_faults |-> FALSE, shutdown |-> FALSE,
      restarts |-> MaxRestarts]}

Runs == DiscoveryRuns \cup ExecutionRuns \cup LifecycleRuns \cup RestartRuns

SeqsUpTo(S, n) == UNION {[1..k -> S] : k \in 0..n}

\* What one GET /trades can come to.
\*   network_error  requests.get raises
\*   http_error     raise_for_status raises (non-2xx)
\*   not_json       response.json() raises
\*   json_object    the body is a non-empty JSON object, not an array
\*   json_list      the body is an array of trade objects
Responses(served) ==
    {[kind |-> k, items |-> <<>>] :
        k \in {"network_error", "http_error", "not_json", "json_object"}}
    \cup {[kind |-> "json_list", items |-> s] : s \in SeqsUpTo(served, MaxRespLen)}

VARIABLES
    \* configuration (constructor arguments kept on self)
    order_type, min_share_possible, market_order_fixed_ammount,
    \* environment of the run: wallets-file contents, trades served,
    \* store statements still to fail, whether trading-API calls can raise,
    \* whether a shutdown request can arrive, restarts of the process still
    \* to come
    files, feed, store_faults, api_faults, may_shutdown, restarts,
    \* shared in-memory state
    wallets_to_copy, trades_to_copy,
    \* the sqlite store: what the connection sees, and what is committed
    watched_wallets, seen_trades, disk_watched, disk_seen,
    \* run() and the event loop
    rpc, running,
    \* wallet_loader task: position
    lpc,
    \* trade_checker task: position, and the snapshot it iterates
    cpc, c_wallets, c_idx,
    \* trade_executor task: position, the snapshot it iterates, the order of
    \* the cycle in progress, the API calls of that cycle, whether the placed
    \* order rests open on the book
    epc, e_trades, e_idx, e_order, e_calls, e_open,
    \* history: how often each hash was appended to the queue, and how often
    \* an order for it was passed to post_order
    append_count, post_count,
    \* history: the outcome of the latest read of the wallets file, the
    \* wallets whose baseline import was committed, and what the connection
    \* saw as watched and seen when the process was last stopped
    last_read, baselined, watched_before, seen_before,
    \* history of the discovery pass in progress
    pass_new, pass_failed, pass_fetched, pass_appended

cfgvars == <<order_type, min_share_possible, market_order_fixed_ammount>>
envvars == <<files, feed, api_faults, may_shutdown>>
lifevars == <<restarts, lpc>>
histvars == <<append_count, post_count, last_read, baselined, watched_before, seen_before>>
dbvars == <<watched_wallets, seen_trades, disk_watched, disk_seen>>
checkervars == <<cpc, c_wallets, c_idx>>
passvars == <<pass_new, pass_failed, pass_fetched, pass_appended>>
execvars == <<epc, e_trades, e_idx, e_order, e_calls, e_open>>

vars == <<cfgvars, envvars, lifevars, store_faults, wallets_to_copy, trades_to_copy,
          dbvars, rpc, running, checkervars, execvars, histvars, passvars>>

Range(s) == {s[i] : i \in DOMAIN s}

\* ------------------------------------------------------------ construction
\* Attributes __init__ assigns on self.  The limit_order_timeout argument is
\* accepted but never stored.
InstanceAttrs ==
    {"private_key", "founder_key", "wallets_txt_path", "trades_to_copy",
     "wallets_to_copy", "order_type", "market_order_fixed_ammount",
     "min_share_possible"}

HasAttr(name) == name \in InstanceAttrs

NoOrder ==
    [kind |-> "none", token_id |-> NoKey, price |-> Missing, size |-> Missing,
     amount |-> Missing, side |-> NoKey, tif |-> "none"]

\* No read of the wallets file has completed yet.
NoRead == [kind |-> "none", lines |-> <<>>]

\* run() creating the tasks before its initial load.
TasksCreatedBeforeLoad == rpc \in {"init", "running"}

\* run() has created the three tasks (lines 317-321) and no shutdown was
\* requested: the loops take their normal steps.
TasksCreated == rpc = "running"

\* The state run() starts from: a constructed controller over an empty store.
Init ==
    /\ \E r \in Runs :
         /\ order_type = r.order_type
         /\ min_share_possible = r.min_share_possible
         /\ files = r.files
         /\ feed = r.feed
         /\ store_faults = r.store_faults
         /\ api_faults = r.api_faults
         /\ may_shutdown = r.shutdown
         /\ restarts = r.restarts
    /\ market_order_fixed_ammount = 1
    /\ wallets_to_copy = <<>>
    /\ trades_to_copy = <<>>
    /\ watched_wallets = {}
    /\ seen_trades = {}
    /\ disk_watched = {}
    /\ disk_seen = {}
    /\ rpc = "init"
    /\ running = "none"
    /\ lpc = "sleep"
    /\ cpc = "sleep"
    /\ c_wallets = <<>>
    /\ c_idx = 0
    /\ epc = "sleep"
    /\ e_trades = <<>>
    /\ e_idx = 0
    /\ e_order = NoOrder
    /\ e_calls = <<>>
    /\ e_open = FALSE
    /\ append_count = [h \in Hashes |-> 0]
    /\ post_count = [h \in Hashes |-> 0]
    /\ last_read = NoRead
    /\ baselined = {}
    /\ watched_before = {}
    /\ seen_before = {}
    /\ pass_new = {}
    /\ pass_failed = FALSE
    /\ pass_fetched = {}
    /\ pass_appended = {}

\* ------------------------------------------------------------ wallet loader
\* A reload whose except clause keeps the snapshot it was given.
get_wallets_ignoring_errors(read_ok, lines) == lines

\* get_wallets_to_copy: the file's lines replace the snapshot; any read error
\* resets it to the empty list.  Nothing escapes the call.
get_wallets_to_copy(read_ok, lines) == IF read_ok THEN lines ELSE <<>>

\* What the open()/read() of lines 113-114 came to: the lines read, or an error.
ReadOutcome(read_ok, lines) ==
    IF read_ok THEN [kind |-> "ok", lines |-> lines]
    ELSE [kind |-> "error", lines |-> <<>>]

\* run(): the initial load, then the three tasks are created.
RunStart ==
    /\ rpc = "init"
    /\ \E read_ok \in BOOLEAN, lines \in files :
         /\ wallets_to_copy' = get_wallets_to_copy(read_ok, lines)
         /\ last_read' = ReadOutcome(read_ok, lines)
    /\ rpc' = "running"
    /\ UNCHANGED <<cfgvars, envvars, lifevars, store_faults, trades_to_copy, dbvars,
                   running, checkervars, execvars, append_count, post_count,
                   baselined, watched_before, seen_before, passvars>>

\* _wallet_loader_loop: one iteration (the reload is synchronous, the sleep
\* that follows changes nothing).
WalletLoader ==
    /\ TasksCreated
    /\ running = "none"
    /\ lpc = "sleep"
    /\ \E read_ok \in BOOLEAN, lines \in files :
         /\ wallets_to_copy' = get_wallets_to_copy(read_ok, lines)
         /\ last_read' = ReadOutcome(read_ok, lines)
    /\ UNCHANGED <<cfgvars, envvars, lifevars, store_faults, trades_to_copy, dbvars,
                   rpc, running, checkervars, execvars, append_count, post_count,
                   baselined, watched_before, seen_before, passvars>>

\* ------------------------------------------------------------- sqlite store
\* Rows of seen_trades are (transactionHash, wallet, data); transactionHash is
\* the primary key and data is json.dumps(trade).
SeenRow(h, w, d) == [transactionHash |-> h, wallet |-> w, data |-> d]

SeenHashes(rows) == {r.transactionHash : r \in rows}

\* SELECT 1 FROM seen_trades WHERE transactionHash = ?  ... fetchone()
IsSeen(rows, h) == h \in SeenHashes(rows)

\* INSERT OR REPLACE: an existing key's row is replaced by the new one.
InsertOrReplaceSeen(rows, h, w, d) ==
    {r \in rows : r.transactionHash # h} \cup {SeenRow(h, w, d)}

\* INSERT OR IGNORE INTO seen_trades: an existing key leaves the table alone.
InsertOrIgnoreSeen(rows, h, w, d) ==
    IF IsSeen(rows, h) THEN rows ELSE rows \cup {SeenRow(h, w, d)}

\* INSERT INTO seen_trades, reached only after the SELECT found no row.
InsertSeen(rows, h, w, d) == rows \cup {SeenRow(h, w, d)}

\* SELECT 1 FROM watched_wallets WHERE address = ?  ... fetchone() is None
IsNewWallet(watched, w) == w \notin watched

\* INSERT INTO watched_wallets (address)
InsertWatched(watched, w) == watched \cup {w}

\* with self._trades_lock: self.trades_to_copy.append(trade)
Enqueue(queue, trade) == Append(queue, trade)

\* -------------------------------------------------------------- data API
\* get_trades_from_wallet: any exception of the request, of raise_for_status
\* or of response.json() is logged and an empty list is returned; otherwise
\* the decoded body is returned as it is.
EmptyList == [shape |-> "list", items |-> <<>>]

get_trades_from_wallet(resp) ==
    CASE resp.kind \in {"network_error", "http_error", "not_json"} -> EmptyList
      [] resp.kind = "json_object" -> [shape |-> "object", items |-> <<>>]
      [] OTHER -> [shape |-> "list", items |-> resp.items]

\* Python truthiness of the returned value: an empty list is falsy, a
\* non-empty list and a non-empty object are truthy.
Truthy(trades) == trades.shape = "object" \/ Len(trades.items) > 0

\* A falsy t_hash (None when the key is absent).
HasHash(trade) == trade.transactionHash # NoKey

FetchedHashes(trades) == {t.transactionHash : t \in {x \in Range(trades.items) : HasHash(x)}}

\* The fetches the spec calls a per-wallet failure: network error, non-2xx
\* status, and a body that is not the JSON array of trades.
FetchFailures == {"network_error", "http_error", "not_json", "json_object"}

\* ------------------------------------------------- one wallet of the pass
\* The code between two awaits runs as one step.  A run of it is threaded
\* through a record s:
\*   watched, seen   the tables as the connection sees them
\*   queue           trades_to_copy
\*   count           append_count
\*   n               store statements (execute, commit) issued so far
\*   status          "run"; "fault": a store statement raised;
\*                   "error": another exception; "committed"
\* failAt is the statement that raises (0: none).
StoreFails(s, failAt) == s.n + 1 = failAt

Issued(s) == [s EXCEPT !.n = @ + 1]

Fault(s) == [s EXCEPT !.n = @ + 1, !.status = "fault"]

\* New wallet, lines 163-167: every fetched hash is recorded, none is copied.
RECURSIVE BaselineTrades(_, _, _, _, _)
BaselineTrades(s, items, i, w, failAt) ==
    IF i > Len(items) THEN s
    ELSE LET trade == items[i]
             t_hash == trade.transactionHash
         IN  IF ~HasHash(trade) THEN BaselineTrades(s, items, i + 1, w, failAt)
             ELSE IF StoreFails(s, failAt) THEN Fault(s)
             ELSE BaselineTrades(
                      [Issued(s) EXCEPT !.seen = InsertOrIgnoreSeen(@, t_hash, w, trade)],
                      items, i + 1, w, failAt)

\* Watched wallet, lines 171-182: an unseen hash is appended to the queue and
\* then inserted into seen_trades.
RECURSIVE ScanTrades(_, _, _, _, _)
ScanTrades(s, items, i, w, failAt) ==
    IF i > Len(items) THEN s
    ELSE LET trade == items[i]
             t_hash == trade.transactionHash
         IN  IF ~HasHash(trade) THEN ScanTrades(s, items, i + 1, w, failAt)
             ELSE IF StoreFails(s, failAt) THEN Fault(s)
             ELSE LET s1 == Issued(s)
                  IN  IF IsSeen(s1.seen, t_hash)
                      THEN ScanTrades(s1, items, i + 1, w, failAt)
                      ELSE LET s2 == [s1 EXCEPT !.queue = Enqueue(@, trade),
                                                !.count[t_hash] = @ + 1,
                                                !.appended = TRUE]
                           IN  IF StoreFails(s2, failAt) THEN Fault(s2)
                               ELSE ScanTrades(
                                        [Issued(s2) EXCEPT
                                            !.seen = InsertSeen(@, t_hash, w, trade)],
                                        items, i + 1, w, failAt)

\* conn.commit() at the end of either branch.
CommitWallet(s, failAt) ==
    IF s.status # "run" THEN s
    ELSE IF StoreFails(s, failAt) THEN Fault(s)
    ELSE [Issued(s) EXCEPT !.status = "committed"]

\* Lines 153-183 for one wallet whose fetch returned a truthy value.
\* Iterating a JSON object yields its keys, and str has no get():
\* AttributeError, after the watched_wallets insert of a new wallet.
ProcessWallet(s, w, trades, failAt) ==
    IF StoreFails(s, failAt) THEN Fault(s)
    ELSE LET s1 == Issued(s)
         IN  IF IsNewWallet(s1.watched, w)
             THEN IF StoreFails(s1, failAt) THEN Fault(s1)
                  ELSE LET s2 == [Issued(s1) EXCEPT !.watched = InsertWatched(@, w)]
                       IN  IF trades.shape = "object"
                           THEN [s2 EXCEPT !.status = "error"]
                           ELSE CommitWallet(
                                    BaselineTrades(s2, trades.items, 1, w, failAt), failAt)
             ELSE IF trades.shape = "object"
                  THEN [s1 EXCEPT !.status = "error"]
                  ELSE CommitWallet(ScanTrades(s1, trades.items, 1, w, failAt), failAt)

\* Most statements one wallet can issue: two on watched_wallets, two per
\* trade, one commit.
MaxStatements == 2 * MaxRespLen + 3

\* A statement succeeds, or raises.  After a failure sqlite either keeps the
\* open transaction (e.g. SQLITE_BUSY) or has rolled it back (e.g. SQLITE_FULL).
FaultPoints == IF store_faults > 0 THEN 0..MaxStatements ELSE {0}

\* ------------------------------------------------------------ the three loops
\* A loop whose except clauses end the loop on any exception.
LoopHandlerBreaks(exc) == "broke"

\* The except clauses every loop wraps its iteration in (lines 267-272,
\* 283-288, 299-304): CancelledError breaks out of the loop, any other
\* exception is logged and the loop sleeps 5 s before its next iteration.
LoopHandler(exc) == IF exc = "CancelledError" THEN "broke" ELSE "backoff"

\* Positions of a task that has ended: "broke" left the loop by break,
\* "cancelled" ended with CancelledError.
Ended == {"broke", "cancelled"}

\* ------------------------------------------------------------ trade checker
\* check_trades_from_wallets begins: the snapshot is copied under the lock.
CheckStart ==
    /\ TasksCreated
    /\ running = "none"
    /\ cpc \in {"sleep", "backoff"}
    /\ c_wallets' = wallets_to_copy
    /\ IF Len(wallets_to_copy) > 0
       THEN /\ c_idx' = 1
            /\ cpc' = "fetch"
            /\ running' = "none"
       ELSE /\ c_idx' = 0
            /\ cpc' = "finished"
            /\ running' = "checker"
    /\ pass_new' = Range(wallets_to_copy) \ watched_wallets
    /\ pass_failed' = FALSE
    /\ pass_fetched' = {}
    /\ pass_appended' = {}
    /\ UNCHANGED <<cfgvars, envvars, lifevars, store_faults, wallets_to_copy, trades_to_copy,
                   dbvars, rpc, execvars, histvars>>

\* A loop over the snapshot that stops where the reloaded list ends.
LivePassLength(snapshot, live) ==
    IF Len(live) < Len(snapshot) THEN Len(live) ELSE Len(snapshot)

\* for wallet in wallets: the loop runs over the copy made on line 147,
\* whatever self.wallets_to_copy has become since.
PassLength(snapshot, live) == Len(snapshot)

\* The for loop moves on: the next fetch is awaited, or the pass has ended.
NextWallet ==
    IF c_idx < PassLength(c_wallets, wallets_to_copy)
    THEN /\ c_idx' = c_idx + 1
         /\ cpc' = "fetch"
         /\ running' = "none"
    ELSE /\ c_idx' = c_idx
         /\ cpc' = "finished"
         /\ running' = "checker"

\* An exception leaves check_trades_from_wallets.
CheckerRaise ==
    /\ c_idx' = c_idx
    /\ cpc' = "raised"
    /\ running' = "checker"

\* The awaited fetch for wallets[c_idx] returns and the wallet is processed
\* up to the next await.
FetchReturn ==
    /\ TasksCreated
    /\ running = "none"
    /\ cpc = "fetch"
    /\ \E resp \in Responses(feed), failAt \in FaultPoints,
          rollback \in (IF store_faults > 0 THEN BOOLEAN ELSE {FALSE}) :
         LET trades == get_trades_from_wallet(resp)
             w == c_wallets[c_idx]
             s0 == [watched |-> watched_wallets, seen |-> seen_trades,
                    queue |-> trades_to_copy, count |-> append_count,
                    appended |-> FALSE, n |-> 0, status |-> "run"]
             s == IF Truthy(trades) THEN ProcessWallet(s0, w, trades, failAt) ELSE s0
         IN  /\ (failAt = 0 /\ ~rollback) \/ s.status = "fault"
             /\ pass_failed' = (pass_failed \/ resp.kind \in FetchFailures)
             /\ pass_fetched' = IF w \in pass_new
                                 THEN pass_fetched \cup FetchedHashes(trades)
                                 ELSE pass_fetched
             /\ pass_appended' = IF s.appended THEN pass_appended \cup {w} ELSE pass_appended
             /\ trades_to_copy' = s.queue
             /\ append_count' = s.count
             /\ baselined' = IF s.status = "committed" /\ IsNewWallet(watched_wallets, w)
                              THEN baselined \cup {w} ELSE baselined
             /\ store_faults' = IF s.status = "fault" THEN store_faults - 1 ELSE store_faults
             /\ disk_watched' = IF s.status = "committed" THEN s.watched ELSE disk_watched
             /\ disk_seen' = IF s.status = "committed" THEN s.seen ELSE disk_seen
             /\ watched_wallets' = IF s.status = "fault" /\ rollback
                                   THEN disk_watched ELSE s.watched
             /\ seen_trades' = IF s.status = "fault" /\ rollback
                               THEN disk_seen ELSE s.seen
             /\ IF s.status \in {"fault", "error"} THEN CheckerRaise ELSE NextWallet
    /\ UNCHANGED <<cfgvars, envvars, lifevars, wallets_to_copy, rpc, c_wallets, pass_new,
                   execvars, post_count, last_read, watched_before, seen_before>>

\* Line 184, then _trade_checker_loop sleeps its interval.
CheckFinished ==
    /\ running = "checker"
    /\ cpc = "finished"
    /\ cpc' = "sleep"
    /\ running' = "none"
    /\ c_idx' = 0
    /\ c_wallets' = <<>>
    /\ pass_new' = {}
    /\ pass_failed' = FALSE
    /\ pass_fetched' = {}
    /\ pass_appended' = {}
    /\ UNCHANGED <<cfgvars, envvars, lifevars, store_faults, wallets_to_copy, trades_to_copy,
                   dbvars, rpc, execvars, histvars>>

\* _trade_checker_loop catches the exception, logs it and sleeps 5 s.
CheckBackoff ==
    /\ running = "checker"
    /\ cpc = "raised"
    /\ cpc' = LoopHandler("Exception")
    /\ running' = "none"
    /\ c_idx' = 0
    /\ c_wallets' = <<>>
    /\ pass_new' = {}
    /\ pass_failed' = FALSE
    /\ pass_fetched' = {}
    /\ pass_appended' = {}
    /\ UNCHANGED <<cfgvars, envvars, lifevars, store_faults, wallets_to_copy, trades_to_copy,
                   dbvars, rpc, execvars, histvars>>

\* ------------------------------------------------------- order execution
\* math.ceil(1 / price), price in hundredths.
CeilInverse(price) == (100 + price - 1) \div price

\* size=5 if min_size < 5 else min_size
OrderSize(min_size) == IF min_size < 5 THEN 5 ELSE min_size

\* OrderArgs(token_id=trade["asset"], price=price, size=..., side=trade["side"]),
\* later posted as OrderType.GTC.
LimitOrder(trade, price, min_size) ==
    [kind |-> "limit", token_id |-> trade.asset, price |-> price,
     size |-> OrderSize(min_size), amount |-> Missing, side |-> trade.side,
     tif |-> "GTC"]

\* A market order sized from the source trade instead of the fixed notional.
MarketOrderFromTradeSize(trade, fixed) ==
    [kind |-> "market", token_id |-> trade.asset, price |-> Missing,
     size |-> Missing, amount |-> trade.size, side |-> trade.side, tif |-> "FOK"]

\* MarketOrderArgs(token_id=trade["asset"], amount=self.market_order_fixed_ammount,
\*                 side=trade["side"], order_type=OrderType.FOK)
MarketOrder(trade, fixed) ==
    [kind |-> "market", token_id |-> trade.asset, price |-> Missing,
     size |-> Missing, amount |-> fixed, side |-> trade.side, tif |-> "FOK"]

\* The synchronous head of one cycle: line 198 and make_order_and_wait_confirmation
\* up to its first await.
\*   "raise_log"  line 198, trade.get('asset')[:20], is a TypeError on a
\*             missing asset, before make_order_and_wait_confirmation is called
\*   "raise"   an exception leaves make_order_and_wait_confirmation:
\*             trade["price"] or trade["size"] on a missing key, 1 / price on
\*             a zero price
\*   "caught"  an exception inside the try is logged and the call returns:
\*             price is bound only in the min_share_possible branch, so with the
\*             flag off OrderArgs(price=price) is an UnboundLocalError
\*   "await"   the order is built and handed to the signing call
PrepareOrder(trade, otype, min_share, fixed) ==
    IF trade.asset = NoKey THEN [status |-> "raise_log", order |-> NoOrder]
    ELSE IF otype = "limit"
    THEN IF min_share
         THEN IF trade.price = Missing \/ trade.size = Missing \/ trade.price = 0
              THEN [status |-> "raise", order |-> NoOrder]
              ELSE IF trade.side = NoKey
              THEN [status |-> "caught", order |-> NoOrder]
              ELSE [status |-> "await",
                    order |-> LimitOrder(trade, trade.price, CeilInverse(trade.price))]
         ELSE IF trade.size = Missing
              THEN [status |-> "raise", order |-> NoOrder]
              ELSE [status |-> "caught", order |-> NoOrder]
    ELSE IF trade.side = NoKey
    THEN [status |-> "caught", order |-> NoOrder]
    ELSE [status |-> "await", order |-> MarketOrder(trade, fixed)]

\* A removal that empties the queue.
ClearQueue(queue, trade) == <<>>

\* A removal that puts the trade back at the end of the queue.
RequeueTrade(queue, trade) == Append(queue, trade)

\* A loop that starts over at the first trade of the snapshot.
FirstTrade(i) == 1

\* for trade in trades: the next element of the snapshot.
NextTrade(i) == i + 1

\* if trade in self.trades_to_copy: self.trades_to_copy.remove(trade)
\* list.remove drops the first equal element.
RECURSIVE RemoveFirst(_, _)
RemoveFirst(queue, trade) ==
    IF queue = <<>> THEN <<>>
    ELSE IF Head(queue) = trade THEN Tail(queue)
    ELSE <<Head(queue)>> \o RemoveFirst(Tail(queue), trade)

\* A snapshot holding only the trade at the head of the queue.
QueueHead(queue) == IF queue = <<>> THEN <<>> ELSE <<Head(queue)>>

\* with self._trades_lock: trades = list(self.trades_to_copy)
QueueSnapshot(queue) == queue

\* execute_queued_trades begins: the queue is copied under the lock.
ExecStart ==
    /\ TasksCreated
    /\ running = "none"
    /\ epc \in {"sleep", "backoff"}
    /\ e_trades' = QueueSnapshot(trades_to_copy)
    /\ IF Len(trades_to_copy) > 0
       THEN /\ e_idx' = 1
            /\ epc' = "process"
            /\ running' = "executor"
       ELSE /\ e_idx' = 0
            /\ epc' = "sleep"
            /\ running' = "none"
    /\ e_order' = NoOrder
    /\ e_calls' = <<>>
    /\ e_open' = FALSE
    /\ UNCHANGED <<cfgvars, envvars, lifevars, store_faults, wallets_to_copy, trades_to_copy,
                   dbvars, rpc, checkervars, histvars, passvars>>

\* One trade of the snapshot: the cycle starts.
ProcessTrade ==
    /\ running = "executor"
    /\ epc = "process"
    /\ LET p == PrepareOrder(e_trades[e_idx], order_type, min_share_possible,
                             market_order_fixed_ammount)
       IN  /\ e_order' = p.order
           /\ e_calls' = IF p.status = "await"
                         THEN <<IF order_type = "limit" THEN "create_order"
                                ELSE "create_market_order">>
                         ELSE <<>>
           /\ epc' = CASE p.status = "raise_log" -> "raised_in_loop"
                       [] p.status = "raise" -> "raised_in_execute"
                       [] p.status = "caught" -> "returned"
                       [] OTHER -> "signing"
           /\ running' = IF p.status = "await" THEN "none" ELSE "executor"
    /\ UNCHANGED <<cfgvars, envvars, lifevars, store_faults, wallets_to_copy, trades_to_copy,
                   dbvars, rpc, checkervars, e_trades, e_idx, e_open, histvars,
                   passvars>>

\* Outcomes of one call of the trading API: it returns (TRUE) or raises.
ApiOutcomes == IF api_faults THEN BOOLEAN ELSE {TRUE}

\* create_order / create_market_order returns the signed order, which is
\* passed to post_order, or raises, which the except clause logs.
SignReturn ==
    /\ TasksCreated
    /\ running = "none"
    /\ epc = "signing"
    /\ \E ok \in ApiOutcomes :
         IF ok
         THEN /\ e_calls' = Append(e_calls, "post_order")
              /\ post_count' = [post_count EXCEPT
                                    ![e_trades[e_idx].transactionHash] = @ + 1]
              /\ epc' = "posting"
              /\ running' = "none"
         ELSE /\ e_calls' = e_calls
              /\ post_count' = post_count
              /\ epc' = "returned"
              /\ running' = "executor"
    /\ UNCHANGED <<cfgvars, envvars, lifevars, store_faults, wallets_to_copy,
                   trades_to_copy, dbvars, rpc, checkervars, e_trades, e_idx, e_order,
                   e_open, append_count, last_read, baselined, watched_before,
                   seen_before, passvars>>

\* A placement followed by a cancel whether or not the order is open.
CancelWhateverOpen(calls, open) == calls \o <<"sleep", "get_orders", "cancel">>

\* What follows a successful limit placement, lines 228-235.  The log line
\* reads self.limit_order_timeout first: without the attribute that is an
\* AttributeError, logged by the except clause.  With it: the wait, the
\* open-order query, and a cancel when the placed id is among the open orders.
AfterLimitPlaced(calls, open) ==
    IF HasAttr("limit_order_timeout")
    THEN calls \o <<"sleep", "get_orders">> \o (IF open THEN <<"cancel">> ELSE <<>>)
    ELSE calls

\* post_order returns the exchange's response, or raises.  `open`: the order
\* placed rests unfilled on the book.
PostReturn ==
    /\ TasksCreated
    /\ running = "none"
    /\ epc = "posting"
    /\ \E ok \in ApiOutcomes, open \in BOOLEAN :
         /\ ok \/ ~open
         /\ e_order.kind = "limit" \/ ~open
         /\ e_open' = open
         /\ e_calls' = IF ok /\ e_order.kind = "limit"
                       THEN AfterLimitPlaced(Append(e_calls, "placed"), open)
                       ELSE IF ok THEN Append(e_calls, "placed") ELSE e_calls
    /\ epc' = "returned"
    /\ running' = "executor"
    /\ UNCHANGED <<cfgvars, envvars, lifevars, store_faults, wallets_to_copy, trades_to_copy,
                   dbvars, rpc, checkervars, e_trades, e_idx, e_order,
                   histvars, passvars>>

\* make_order_and_wait_confirmation has returned: the trade leaves the queue
\* and the loop takes the next trade of the snapshot, or the pass is over
\* and _trade_executor_loop sleeps its interval.
RemoveTrade ==
    /\ running = "executor"
    /\ epc = "returned"
    /\ trades_to_copy' = RemoveFirst(trades_to_copy, e_trades[e_idx])
    /\ IF e_idx < Len(e_trades)
       THEN /\ e_idx' = NextTrade(e_idx)
            /\ epc' = "process"
            /\ running' = "executor"
            /\ e_trades' = e_trades
       ELSE /\ e_idx' = 0
            /\ epc' = "sleep"
            /\ running' = "none"
            /\ e_trades' = <<>>
    /\ e_order' = NoOrder
    /\ e_calls' = <<>>
    /\ e_open' = FALSE
    /\ UNCHANGED <<cfgvars, envvars, lifevars, store_faults, wallets_to_copy, dbvars, rpc,
                   checkervars, histvars, passvars>>

\* An exception left execute_queued_trades: _trade_executor_loop logs it and
\* sleeps 5 s.  The trade is still queued.
ExecBackoff ==
    /\ running = "executor"
    /\ epc \in {"raised_in_loop", "raised_in_execute"}
    /\ epc' = LoopHandler("Exception")
    /\ running' = "none"
    /\ e_idx' = 0
    /\ e_trades' = <<>>
    /\ e_order' = NoOrder
    /\ e_calls' = <<>>
    /\ e_open' = FALSE
    /\ UNCHANGED <<cfgvars, envvars, lifevars, store_faults, wallets_to_copy, trades_to_copy,
                   dbvars, rpc, checkervars, histvars, passvars>>

\* ------------------------------------------------- shutdown and restart
\* The task running run() is cancelled while it awaits gather (line 326):
\* gather passes the request on to the three tasks.  From here each task's
\* next step is a CancelledError raised at the await it is suspended in.
Shutdown ==
    /\ may_shutdown
    /\ TasksCreated
    /\ running = "none"
    /\ rpc' = "cancelling"
    /\ UNCHANGED <<cfgvars, envvars, lifevars, store_faults, wallets_to_copy,
                   trades_to_copy, dbvars, running, checkervars, execvars, histvars,
                   passvars>>

CancelRequested == rpc \in {"cancelling", "cleanup"}

\* CancelledError at an await inside the try (interval sleep, fetch, signing
\* or posting call) reaches the loop's except clause.  Raised by the backoff
\* sleep, which is inside the except clause for Exception, it leaves the task.
Cancelled(pc) == IF pc = "backoff" THEN "cancelled" ELSE LoopHandler("CancelledError")

\* wallet_loader is suspended in its interval sleep.
CancelLoader ==
    /\ CancelRequested
    /\ running = "none"
    /\ lpc = "sleep"
    /\ lpc' = Cancelled(lpc)
    /\ UNCHANGED <<cfgvars, envvars, restarts, store_faults, wallets_to_copy,
                   trades_to_copy, dbvars, rpc, running, checkervars, execvars,
                   histvars, passvars>>

\* trade_checker is suspended in its interval sleep, its backoff sleep or a
\* fetch (except Exception in get_trades_from_wallet does not catch
\* CancelledError).
CancelChecker ==
    /\ CancelRequested
    /\ running = "none"
    /\ cpc \in {"sleep", "backoff", "fetch"}
    /\ cpc' = Cancelled(cpc)
    /\ c_idx' = 0
    /\ c_wallets' = <<>>
    /\ pass_new' = {}
    /\ pass_failed' = FALSE
    /\ pass_fetched' = {}
    /\ pass_appended' = {}
    /\ UNCHANGED <<cfgvars, envvars, lifevars, store_faults, wallets_to_copy,
                   trades_to_copy, dbvars, rpc, running, execvars, histvars>>

\* trade_executor is suspended in its interval sleep, its backoff sleep or
\* an order call.  The trade of the cycle stays in the queue.
CancelExecutor ==
    /\ CancelRequested
    /\ running = "none"
    /\ epc \in {"sleep", "backoff", "signing", "posting"}
    /\ epc' = Cancelled(epc)
    /\ e_idx' = 0
    /\ e_trades' = <<>>
    /\ e_order' = NoOrder
    /\ e_calls' = <<>>
    /\ e_open' = FALSE
    /\ UNCHANGED <<cfgvars, envvars, lifevars, store_faults, wallets_to_copy,
                   trades_to_copy, dbvars, rpc, running, checkervars, histvars,
                   passvars>>

AllEnded == lpc \in Ended /\ cpc \in Ended /\ epc \in Ended

\* gather(*tasks) of line 326 is done: a task ended with CancelledError, or
\* all three have ended.  Cancelled itself, it raises CancelledError in run().
FirstGatherDone == "cancelled" \in {lpc, cpc, epc} \/ AllEnded

\* The except clause of line 327 skipping the wait of line 332.
NoSecondGather == TRUE

\* gather(*tasks, return_exceptions=True) of line 332 is done: all three
\* tasks have ended, whatever each ended with.
SecondGatherDone == AllEnded

\* Lines 327-330: run() catches CancelledError and cancels every task.
RunCatch ==
    /\ rpc = "cancelling"
    /\ running = "none"
    /\ FirstGatherDone
    /\ rpc' = "cleanup"
    /\ UNCHANGED <<cfgvars, envvars, lifevars, store_faults, wallets_to_copy,
                   trades_to_copy, dbvars, running, checkervars, execvars, histvars,
                   passvars>>

\* Lines 332-333: the second gather is done and run() returns.
RunReturn ==
    /\ rpc = "cleanup"
    /\ running = "none"
    /\ SecondGatherDone
    /\ rpc' = "returned"
    /\ UNCHANGED <<cfgvars, envvars, lifevars, store_faults, wallets_to_copy,
                   trades_to_copy, dbvars, running, checkervars, execvars, histvars,
                   passvars>>

\* The process ends, by return of run() or killed while its tasks are
\* suspended, and is started again: __init__ and _init_db over the same
\* trades.db.  Memory starts empty; the connection was never closed, so what
\* it had not committed is gone.
Restart ==
    /\ restarts > 0
    /\ rpc # "init"
    /\ running = "none"
    /\ restarts' = restarts - 1
    /\ watched_before' = watched_wallets
    /\ seen_before' = SeenHashes(seen_trades)
    /\ watched_wallets' = disk_watched
    /\ seen_trades' = disk_seen
    /\ wallets_to_copy' = <<>>
    /\ trades_to_copy' = <<>>
    /\ last_read' = NoRead
    /\ rpc' = "init"
    /\ lpc' = "sleep"
    /\ cpc' = "sleep"
    /\ c_idx' = 0
    /\ c_wallets' = <<>>
    /\ pass_new' = {}
    /\ pass_failed' = FALSE
    /\ pass_fetched' = {}
    /\ pass_appended' = {}
    /\ epc' = "sleep"
    /\ e_idx' = 0
    /\ e_trades' = <<>>
    /\ e_order' = NoOrder
    /\ e_calls' = <<>>
    /\ e_open' = FALSE
    /\ UNCHANGED <<cfgvars, envvars, store_faults, disk_watched, disk_seen, running,
                   append_count, post_count, baselined>>

Lifecycle ==
    \/ Shutdown
    \/ CancelLoader
    \/ CancelChecker
    \/ CancelExecutor
    \/ RunCatch
    \/ RunReturn
    \/ Restart

TradeExecutor ==
    \/ ExecStart
    \/ ProcessTrade
    \/ SignReturn
    \/ PostReturn
    \/ RemoveTrade
    \/ ExecBackoff

TradeChecker ==
    \/ CheckStart
    \/ FetchReturn
    \/ CheckFinished
    \/ CheckBackoff

Next ==
    \/ RunStart
    \/ WalletLoader
    \/ TradeChecker
    \/ TradeExecutor
    \/ Lifecycle

Spec == Init /\ [][Next]_vars

\* The lifecycle run under the scheduling of the event loop: a task that is
\* ready runs (the ready queue is first in, first out), a timer expires, and
\* a call handed to a thread returns or raises.  The executor is ready
\* again and again while the checker takes its own steps in between, hence
\* strong fairness for it.
LiveInit == Init /\ may_shutdown

Fairness ==
    /\ WF_vars(CheckFinished)
    /\ WF_vars(CheckBackoff)
    /\ SF_vars(TradeExecutor)
    /\ WF_vars(CancelLoader)
    /\ WF_vars(CancelChecker)
    /\ WF_vars(CancelExecutor)
    /\ WF_vars(RunCatch)
    /\ WF_vars(RunReturn)

LiveSpec == LiveInit /\ [][Next]_vars /\ Fairness

\* ==================================================================== claims
Max(a, b) == IF a >= b THEN a ELSE b

\* The trade whose cycle the executor is in.
CurrentTrade == e_trades[e_idx]

InCycle == epc \in {"signing", "posting", "returned"}

\* The trades of the snapshot whose execution attempt is over: those before
\* the current one, and the current one when its attempt raised.
AttemptedCount ==
    CASE epc \in {"raised_in_loop", "raised_in_execute"} -> e_idx
      [] epc \in {"process", "signing", "posting", "returned"} -> e_idx - 1
      [] OTHER -> 0

\* C1: over any interleaving of discovery passes, execution passes and
\* wallet reloads, also when a store write or commit fails, a transactionHash
\* is appended to trades_to_copy at most once.
C1_QueuedAtMostOnce == \A h \in Hashes : append_count[h] <= 1

\* C2: when a discovery pass has ended and every fetch of it succeeded, each
\* wallet of the snapshot that was not watched at its start is watched, every
\* hash fetched for such a wallet is in seen_trades, and no trade was queued
\* from it.
C2_NewWalletBaselined ==
    (cpc = "finished" /\ ~pass_failed) =>
        /\ pass_new \subseteq watched_wallets
        /\ pass_fetched \subseteq SeenHashes(seen_trades)
        /\ pass_new \cap pass_appended = {}

\* C3: between two discovery passes, every hash that was queued was queued
\* exactly once and has exactly one seen_trades row, so that a pass over the
\* same response queues nothing again.
C3_QueuedOnceSeenOnce ==
    cpc \in {"sleep", "backoff"} =>
        \A h \in Hashes :
            append_count[h] > 0 =>
                /\ append_count[h] = 1
                /\ Cardinality({r \in seen_trades : r.transactionHash = h}) = 1

\* C4: a trade of the executor's snapshot whose execution attempt is over,
\* by return or by exception, is no longer in trades_to_copy.
C4_AttemptedTradeRemoved ==
    \A i \in 1..AttemptedCount : e_trades[i] \notin Range(trades_to_copy)

\* C5: make_order_and_wait_confirmation never raises, for any queued trade
\* and any configuration.
C5_ExecuteNeverRaises == epc # "raised_in_execute"

\* C6: a limit order that was placed and rests open is, by the time the
\* cycle returns, waited on, looked up among the open orders and cancelled.
C6_OpenLimitOrderCancelled ==
    (epc = "returned" /\ e_order.kind = "limit" /\ e_open) =>
        /\ Len(e_calls) = 6
        /\ SubSeq(e_calls, 3, 6) = <<"placed", "sleep", "get_orders", "cancel">>

\* C7: for a well-formed trade under order type limit, the order handed to
\* the trading API has size max(5, ceil(1/price)) with min_share_possible
\* and max(5, trade.size) without.
C7_LimitOrderSize ==
    (epc = "returned" /\ order_type = "limit" /\ WellFormed(CurrentTrade)) =>
        /\ e_order.kind = "limit"
        /\ e_order.size = IF min_share_possible
                          THEN Max(5, CeilInverse(CurrentTrade.price))
                          ELSE Max(5, CurrentTrade.size)

\* C8: under order type limit, every cycle of a well-formed trade builds one
\* limit order and hands it to the trading API, with the trade's price, side
\* and token, whatever min_share_possible is.
C8_LimitOrderMirrorsTrade ==
    (epc = "returned" /\ order_type = "limit" /\ WellFormed(CurrentTrade)) =>
        /\ Len(e_calls) >= 1
        /\ e_calls[1] = "create_order"
        /\ e_order.price = CurrentTrade.price
        /\ e_order.side = CurrentTrade.side
        /\ e_order.token_id = CurrentTrade.asset

\* C9: under order type market, an order passed to post_order is a market
\* order for the configured fixed amount, with the trade's side and token,
\* posted fill-or-kill.
C9_MarketOrderFixedAmount ==
    (order_type = "market" /\ InCycle /\ Len(e_calls) >= 2) =>
        /\ e_calls[1] = "create_market_order"
        /\ e_calls[2] = "post_order"
        /\ e_order.kind = "market"
        /\ e_order.amount = market_order_fixed_ammount
        /\ e_order.side = CurrentTrade.side
        /\ e_order.token_id = CurrentTrade.asset
        /\ e_order.tif = "FOK"

\* A market order for a trade whose size differs from the fixed amount is
\* with the exchange.
C9_Witness ==
    /\ order_type = "market"
    /\ epc = "posting"
    /\ e_calls = <<"create_market_order", "post_order">>
    /\ CurrentTrade.size # market_order_fixed_ammount

\* C10: a pass over several wallets in which a fetch failed (network error,
\* non-2xx status, malformed body) still runs to its end over every wallet
\* of the snapshot.
C10_FailedFetchSkipped ==
    (cpc \in {"finished", "raised"} /\ pass_failed /\ Len(c_wallets) > 1) =>
        /\ cpc = "finished"
        /\ c_idx = Len(c_wallets)

\* All five keys the engine reads from a trade record are present.
HasRequiredFields(t) ==
    /\ t.transactionHash # NoKey
    /\ t.asset # NoKey
    /\ t.price # Missing
    /\ t.size # Missing
    /\ t.side # NoKey

Raised == {"raised_in_loop", "raised_in_execute"}

\* C11: while no shutdown was requested none of the three loops has ended,
\* whatever exceptions their iterations raised, and run() has returned only
\* after a shutdown request.
C11_LoopsSurviveExceptions ==
    (lpc \in Ended \/ cpc \in Ended \/ epc \in Ended \/ rpc \in {"cleanup", "returned"})
        => may_shutdown /\ ~TasksCreated /\ rpc # "init"

\* The checker and the executor each had an exception in an iteration, the
\* run goes on and both are backing off towards their next iteration.
C11_Witness ==
    /\ TasksCreated
    /\ cpc = "backoff"
    /\ epc = "backoff"
    /\ lpc = "sleep"

\* C12: run() has returned only when all three loops have ended, and once a
\* shutdown is requested, in a process that is not killed, run() returns.
C12_ShutdownTerminates ==
    /\ [](rpc = "returned" => AllEnded)
    /\ ((rpc = "cancelling" /\ restarts = 0) ~> rpc = "returned")

\* run() has returned after a shutdown that found the checker in its backoff
\* sleep and the executor in an order call.
C12_Witness ==
    /\ rpc = "returned"
    /\ cpc = "cancelled"
    /\ epc = "broke"
    /\ lpc = "broke"
    /\ trades_to_copy # <<>>

\* C13: whenever the checker is suspended (in a fetch, in its interval
\* sleep or in its backoff sleep) the connection has nothing uncommitted.
C13_NoOpenTransactionAtAwait ==
    cpc \in {"fetch", "sleep", "backoff"} =>
        /\ watched_wallets = disk_watched
        /\ seen_trades = disk_seen

\* C14: a wallet is durably watched only by the commit of its own baseline
\* import, the transaction that also holds the hashes fetched with it.
C14_WalletPassAtomic == disk_watched \subseteq baselined

\* C15: after a reload the snapshot is exactly the lines read, and after a
\* failed read it is empty.
C15_ReloadReplacesOrResets ==
    /\ last_read.kind = "ok" => wallets_to_copy = last_read.lines
    /\ last_read.kind = "error" => wallets_to_copy = <<>>

\* A reload failed while the checker iterates the snapshot of an earlier
\* successful one: wallets_to_copy went from populated to empty.
C15_Witness ==
    /\ last_read.kind = "error"
    /\ c_wallets # <<>>
    /\ wallets_to_copy = <<>>

\* C16: what the engine treated as watched and as seen when it was stopped
\* is watched and seen after the restart.
C16_RestartKeepsHistory ==
    /\ watched_before \subseteq watched_wallets
    /\ seen_before \subseteq SeenHashes(seen_trades)

\* C17: no execution pass is ended by an exception on a record that lacks
\* a required field.
C17_MalformedRecordSkipped ==
    ~(epc \in Raised /\ ~HasRequiredFields(CurrentTrade))

\* C18: over the whole run, restarts included, post_order is called at most
\* once per transactionHash.
C18_OnePlacementPerHash == \A h \in Hashes : post_count[h] <= 1

\* C19: a task has taken a step only after a load of the wallets file has
\* completed, and the snapshot a discovery pass iterates is one a completed
\* load produced.
C19_LoadBeforeLoops ==
    /\ (lpc # "sleep" \/ cpc # "sleep" \/ epc # "sleep") => last_read # NoRead
    /\ c_wallets # <<>> => last_read # NoRead

\* A discovery pass is fetching for the wallets the initial load read.
C19_Witness ==
    /\ cpc = "fetch"
    /\ last_read.kind = "ok"
    /\ c_wallets = last_read.lines

\* C20: while the loops run, a trade in the queue is eventually in the
\* snapshot of an execution pass.
C20_QueuedTradeReachesExecutor ==
    \A t \in TradeDicts :
        (t \in Range(trades_to_copy)) ~> (t \in Range(e_trades) \/ ~TasksCreated)

\* An execution pass holds a queued trade in its snapshot.
C20_Witness ==
    /\ TasksCreated
    /\ epc = "process"
    /\ \E t \in TradeDicts : t \in Range(trades_to_copy) /\ t \in Range(e_trades)

\* A step of the running process: not the stop and start of Restart.
SameProcess == restarts' = restarts

OneRowPerHash(rows) ==
    \A r1, r2 \in rows : r1.transactionHash = r2.transactionHash => r1 = r2

\* C21: seen_trades holds at most one row per transactionHash, in the
\* connection's view and on disk, and a step that leaves a hash in the table
\* leaves its row, wallet and payload, as it was first recorded.
C21_OneRowPerHash ==
    /\ [](OneRowPerHash(seen_trades) /\ OneRowPerHash(disk_seen))
    /\ [][\A r \in seen_trades :
            r.transactionHash \in SeenHashes(seen_trades') => r \in seen_trades']_vars

\* The baseline import of W2 fetched a hash that is recorded for W1.
C21_Witness ==
    /\ pass_new = {"W2"}
    /\ "W2" \in watched_wallets
    /\ \E r \in seen_trades : r.wallet = "W1" /\ r.transactionHash \in pass_fetched

\* C22: at the end of a discovery pass in which every fetch succeeded,
\* every wallet of the snapshot is watched, whatever its history held.
C22_WatchedOnFirstFetch ==
    (cpc = "finished" /\ ~pass_failed) => Range(c_wallets) \subseteq watched_wallets

\* C23: no step of the running process takes a wallet out of the watched
\* wallets or a hash out of the seen hashes.
C23_StoreOnlyGrows ==
    [][SameProcess =>
        /\ watched_wallets \subseteq watched_wallets'
        /\ SeenHashes(seen_trades) \subseteq SeenHashes(seen_trades')]_vars

\* C24: a queued trade that is not in the snapshot of the execution pass
\* stays in the queue over every step of the running process.
C24_LateTradeKept ==
    [][SameProcess =>
        \A t \in TradeDicts :
            (t \in Range(trades_to_copy) /\ t \notin Range(e_trades))
                => t \in Range(trades_to_copy')]_vars

\* The executor is suspended in an order call and the queue holds a trade
\* that its snapshot does not.
C24_Witness ==
    /\ epc \in {"signing", "posting"}
    /\ \E t \in Range(trades_to_copy) : t \notin Range(e_trades)

\* C25: while a discovery pass is under way its snapshot does not change,
\* its wallets are taken one after another in snapshot order, only the
\* wallet at hand can become watched, and the pass ends after the last one.
C25_PassOverSnapshot ==
    [][(cpc = "fetch" /\ SameProcess /\ cpc' \notin Ended) =>
        /\ c_wallets' = c_wallets
        /\ cpc' = "fetch" => c_idx' \in {c_idx, c_idx + 1}
        /\ cpc' = "finished" => c_idx = Len(c_wallets)
        /\ (watched_wallets' \ watched_wallets) \subseteq {c_wallets[c_idx]}]_vars

\* The pass is at the second wallet of its snapshot while a reload has cut
\* wallets_to_copy down to one wallet.
C25_Witness ==
    /\ cpc = "fetch"
    /\ c_idx = 2
    /\ c_wallets = <<"W1", "W2">>
    /\ wallets_to_copy = <<"W1">>

\* C26: a cancel call follows the open-order query of a limit order that
\* was placed in this cycle and found open, and a market order's cycle has
\* no call but the signing and the placement.
C26_CancelOnlyOpenLimit ==
    /\ \A i \in DOMAIN e_calls :
           e_calls[i] = "cancel" =>
               /\ e_order.kind = "limit"
               /\ e_open
               /\ i > 3
               /\ e_calls[i - 1] = "get_orders"
               /\ "placed" \in {e_calls[j] : j \in 1..(i - 1)}
    /\ e_order.kind = "market" =>
           Range(e_calls) \subseteq {"create_market_order", "post_order", "placed"}

\* A limit order was placed, does not rest open, and the cycle has returned
\* without a cancel.
C26_Witness ==
    /\ epc = "returned"
    /\ e_order.kind = "limit"
    /\ ~e_open
    /\ "placed" \in Range(e_calls)
    /\ "cancel" \notin Range(e_calls)

\* C27: a step of the executor leaves the store and wallets_to_copy alone
\* and does not lengthen the queue; a reload leaves the store and the queue
\* alone; the queue grows only in a step of the checker's fetch and shrinks
\* only when a cycle has returned; the store changes only in a step of the
\* checker's fetch.
C27_SingleWriters ==
    [][SameProcess =>
        /\ execvars' # execvars =>
               /\ UNCHANGED <<dbvars, wallets_to_copy>>
               /\ Len(trades_to_copy') <= Len(trades_to_copy)
        /\ wallets_to_copy' # wallets_to_copy => UNCHANGED <<dbvars, trades_to_copy>>
        /\ Len(trades_to_copy') > Len(trades_to_copy) =>
               cpc = "fetch" /\ UNCHANGED execvars
        /\ Len(trades_to_copy') < Len(trades_to_copy) => epc = "returned"
        /\ dbvars' # dbvars => cpc = "fetch"]_vars

\* An execution pass has removed its first trade, over a store that holds
\* seen hashes.
C27_Witness ==
    /\ epc = "process"
    /\ e_idx = 2
    /\ Len(trades_to_copy) < Len(e_trades)
    /\ seen_trades # {}

\* C28: while the loops run, a trade in the queue is eventually removed
\* from it.
C28_QueuedTradeRemoved ==
    \A t \in TradeDicts :
        (t \in Range(trades_to_copy)) ~> (t \notin Range(trades_to_copy) \/ ~TasksCreated)

\* C29: within an execution pass the snapshot is fixed, the order in
\* flight is the one built for the trade at hand, and the executor moves to
\* the next trade of the snapshot, and only to it, when the cycle of the
\* trade at hand has returned.
C29_OneCycleAtATime ==
    /\ [](epc \in {"signing", "posting"} =>
            /\ e_order.token_id = CurrentTrade.asset
            /\ e_order.side = CurrentTrade.side)
    /\ [][(SameProcess /\ epc \in {"process", "signing", "posting", "returned"}
                      /\ epc' \in {"process", "signing", "posting", "returned"}) =>
            /\ e_trades' = e_trades
            /\ e_idx' # e_idx => epc = "returned"
            /\ (epc = "returned" /\ epc' = "process") => e_idx' = e_idx + 1]_vars

\* The cycle of the second trade of the snapshot is in flight.
C29_Witness ==
    /\ e_idx = 2
    /\ epc = "signing"
    /\ Len(e_trades) >= 2

====
